---- MODULE Spec2Model ----
(***************************************************************************)
(* A model of modelsmith's extraction-and-retry pipeline:                  *)
(*   utilities.find_patterns, ResponseModel, Prompt,                       *)
(*   Forge._process_response and Forge.generate (with tenacity's Retrying  *)
(*   loop).                                                                *)
(*                                                                         *)
(* Specifications: Spec (generate calls on one Forge), SpecFind            *)
(* (find_patterns on its own), SpecAdapter (a ResponseModel and            *)
(* _process_response on their own), SpecPrompt (a Prompt on its own),     *)
(* SpecConc (two threads calling generate on one Forge) and SpecRace (two  *)
(* threads making the first render of one Prompt).                         *)
(*                                                                         *)
(* Response texts are sequences of one-character strings, so that          *)
(* re.findall and str.strip act on characters as they do in Python;        *)
(* prompt texts are sequences of pieces (literal text, template syntax,    *)
(* feedback).                                                              *)
(***************************************************************************)
EXTENDS Integers, Sequences, FiniteSets, TLC

VARIABLES
    \* ---- utilities.find_patterns, called on its own ----
    fp_text,          \* input_string
    fp_patterns,      \* patterns: a str or an iterable of str
    fp_result,        \* the returned list
    fp_pc,            \* "call" before the call, "done" after it
    \* ---- Forge: construction-time configuration ----
    max_retries,      \* Forge.max_retries
    raise_on_failure, \* Forge.raise_on_failure
    response_model,   \* the target type handed to Forge(response_model=...)
    match_patterns,   \* Forge.match_patterns
    \* ---- Forge.generate: state of the call in progress ----
    pc,               \* position of the call
    calls,            \* number of generate calls started on this Forge
    prepared_prompt,  \* local prepared_prompt
    attempt_number,   \* tenacity's retry_state.attempt_number
    response,         \* the response text returned by the last send
    sent,             \* the prompts passed to model.send, in order
    attempts,         \* what each attempt of the call ended with
    outcome,          \* how the call ended
    user_input,       \* the user_input the call was made with
    prompt_values,    \* the names of the prompt_values the call was made with
    \* ---- Prompt: the object a Forge owns, or one used on its own ----
    p_prompt,         \* Prompt.prompt, the template text
    p_cache,          \* Prompt._prompt_variables
    p_parses,         \* how often the template text was parsed for its variables
    p_calls,          \* the render calls and prompt_variables reads made on a
                      \* Prompt used on its own, with what each gave
    \* ---- generate calls running at the same time on one Forge ----
    threads           \* for each thread, the position and the locals of the
                      \* generate call it runs

vars == <<fp_text, fp_patterns, fp_result, fp_pc,
          max_retries, raise_on_failure, response_model, match_patterns,
          pc, calls, prepared_prompt, attempt_number, response, sent,
          attempts, outcome, user_input, prompt_values,
          p_prompt, p_cache, p_parses, p_calls, threads>>

promptVars == <<p_prompt, p_cache, p_parses, p_calls>>

fpVars == <<fp_text, fp_patterns, fp_result, fp_pc>>

forgeVars == <<max_retries, raise_on_failure, response_model, match_patterns,
               pc, calls, prepared_prompt, attempt_number, response, sent,
               attempts, outcome, user_input, prompt_values>>

(***************************************************************************)
(* Bounds of the model.                                                    *)
(***************************************************************************)
\* longest input_string given to find_patterns on its own
MaxLen == 5
\* longest pattern list given to find_patterns on its own
MaxPatterns == 2
\* largest max_retries a Forge is constructed with
MaxRetries == 3
\* generate calls made on one Forge
MaxCalls == 2
\* render calls and prompt_variables reads made on one Prompt used on its own
MaxRenders == 2
\* largest max_retries of a Forge whose generate is called by two threads
ConcMaxRetries == 2

(***************************************************************************)
(* Sequence helpers.                                                       *)
(***************************************************************************)
\* s[a..b] as Python's s[a-1:b]; empty when b < a
Slice(s, a, b) == IF b < a THEN <<>> ELSE SubSeq(s, a, b)

\* s.startswith(d, i-1): d occurs in s at (1-based) position i
OccursAt(s, d, i) ==
    /\ i >= 1
    /\ i + Len(d) - 1 <= Len(s)
    /\ \A k \in 1..Len(d) : s[i + k - 1] = d[k]

\* all sequences over S of length at most n
RECURSIVE SeqsUpTo(_, _)
SeqsUpTo(S, n) ==
    IF n = 0 THEN {<<>>}
    ELSE LET shorter == SeqsUpTo(S, n - 1)
         IN  shorter \cup {Append(s, x) : s \in {t \in shorter : Len(t) = n - 1}, x \in S}

(***************************************************************************)
(* str.strip(): leading and trailing whitespace removed.                   *)
(***************************************************************************)
\* The characters str.strip() removes when called without an argument: the 29
\* code points for which str.isspace() is true.  AsciiWhitespace is written
\* with the escapes a TLA+ string has; ControlWhitespace holds U+000B,
\* U+001C..U+001F, U+0085, U+00A0 and U+1680 as the characters themselves;
\* NamedWhitespace holds U+2000..U+200A, U+2028, U+2029, U+202F, U+205F and
\* U+3000, which a TLA+ string cannot hold, by their Unicode abbreviations
\* (as BQ stands for the backquote).
AsciiWhitespace == {" ", "\n", "\t", "\r", "\f"}

ControlWhitespace == {"", "", "", "", "", "", " ", " "}

NamedWhitespace == {"NQSP", "MQSP", "ENSP", "EMSP", "3/MSP", "4/MSP", "6/MSP", "FSP", "PSP", "THSP", "HSP", "LSEP", "PSEP", "NNBSP", "MMSP", "IDSP"}

Whitespace == AsciiWhitespace \cup ControlWhitespace \cup NamedWhitespace

RECURSIVE lstrip(_)
lstrip(s) ==
    IF s # <<>> /\ Head(s) \in Whitespace THEN lstrip(Tail(s)) ELSE s

RECURSIVE rstrip(_)
rstrip(s) ==
    IF s # <<>> /\ s[Len(s)] \in Whitespace
    THEN rstrip(SubSeq(s, 1, Len(s) - 1))
    ELSE s

strip(s) == rstrip(lstrip(s))

(***************************************************************************)
(* Regular expressions.  A pattern is one of the two shapes the Forge's    *)
(* default match_patterns have (forge.py:41), over any delimiters:         *)
(*   lazy   open, then a group of any characters matched lazily, then   *)
(*          close: findall returns the group                               *)
(*   greedy open, any characters matched greedily, close; no group:     *)
(*          findall returns the whole match                                *)
(* both compiled with re.DOTALL, so "." matches every character.           *)
(***************************************************************************)
LazyPattern(open, close) == [kind |-> "lazy", open |-> open, close |-> close]

GreedyPattern(open, close) == [kind |-> "greedy", open |-> open, close |-> close]

\* The backquote character (U+0060), which a TLA+ string cannot hold: the one
\* character of the model that is written by name.
BQ == "BQ"

\* match_patterns[0], the fenced json block: three backquotes and json, a lazy
\* group, three backquotes
FencePattern == LazyPattern(<<BQ, BQ, BQ, "j", "s", "o", "n">>, <<BQ, BQ, BQ>>)

\* match_patterns[1], the widest brace-delimited span
BracePattern == GreedyPattern(<<"{">>, <<"}">>)

\* the positions at which close may end a match of the pattern opened at i
CloseStarts(text, pattern, i) ==
    {j \in (i + Len(pattern.open))..Len(text) : OccursAt(text, pattern.close, j)}

\* the start positions >= pos at which the pattern matches
MatchStarts(text, pattern, pos) ==
    {i \in pos..Len(text) :
        OccursAt(text, pattern.open, i) /\ CloseStarts(text, pattern, i) # {}}

Min(S) == CHOOSE x \in S : \A y \in S : x <= y

Max(S) == CHOOSE x \in S : \A y \in S : x >= y

\* re.findall(pattern, text, re.DOTALL) from position pos on: the leftmost match,
\* then the matches of the rest of the text after it (matches do not overlap)
RECURSIVE findall_from(_, _, _)
findall_from(text, pattern, pos) ==
    LET starts == MatchStarts(text, pattern, pos)
    IN  IF starts = {} THEN <<>>
        ELSE LET i == Min(starts)
                 closes == CloseStarts(text, pattern, i)
                 j == IF pattern.kind = "lazy" THEN Min(closes) ELSE Max(closes)
                 found == IF pattern.kind = "lazy"
                          THEN Slice(text, i + Len(pattern.open), j - 1)
                          ELSE Slice(text, i, j + Len(pattern.close) - 1)
             IN  <<found>> \o findall_from(text, pattern, j + Len(pattern.close))

findall(pattern, text) == findall_from(text, pattern, 1)

(***************************************************************************)
(* utilities.find_patterns.  The patterns argument is a str or an iterable *)
(* of str: [isstr |-> TRUE, value |-> p] or [isstr |-> FALSE, value |-> a  *)
(* sequence of patterns].                                                  *)
(***************************************************************************)
StrArg(p) == [isstr |-> TRUE, value |-> p]

ListArg(ps) == [isstr |-> FALSE, value |-> ps]

\* [f.strip() for f in found]
StripAll(found) == [k \in 1..Len(found) |-> strip(found[k])]

\* the for loop over the patterns, results.extend(found) at each turn
RECURSIVE find_patterns_loop(_, _, _)
find_patterns_loop(input_string, patterns, results) ==
    IF patterns = <<>> THEN results
    ELSE find_patterns_loop(input_string, Tail(patterns),
                            results \o StripAll(findall(Head(patterns), input_string)))

\* a loop that puts each pattern's matches in front of the results so far
RECURSIVE find_patterns_loop_prepend(_, _, _)
find_patterns_loop_prepend(input_string, patterns, results) ==
    IF patterns = <<>> THEN results
    ELSE find_patterns_loop_prepend(input_string, Tail(patterns),
                            StripAll(findall(Head(patterns), input_string)) \o results)

find_patterns_prepend(input_string, patterns) ==
    find_patterns_loop_prepend(input_string,
        IF patterns.isstr THEN <<patterns.value>> ELSE patterns.value, <<>>)

find_patterns(input_string, patterns) ==
    find_patterns_loop(input_string,
        IF patterns.isstr THEN <<patterns.value>> ELSE patterns.value, <<>>)

(***************************************************************************)
(* find_patterns called on its own: the inputs are drawn from bounded sets *)
(* and the function is applied once.                                       *)
(***************************************************************************)
\* a lazy pattern with one-character delimiters: "<", a lazy group, ">"
AnglePattern == LazyPattern(<<"<">>, <<">">>)

FindAlphabet == {"<", ">", "{", "}", " "}

\* a delimited group with one whitespace character on either side, for each
\* character strip() removes
WhitespaceTexts == {<<"<", w, "}", w, ">">> : w \in Whitespace}

FindTexts == SeqsUpTo(FindAlphabet, MaxLen) \cup WhitespaceTexts

FindPatternSet == {AnglePattern, BracePattern}

FindPatternArgs ==
    {StrArg(p) : p \in FindPatternSet}
    \cup {ListArg(ps) : ps \in SeqsUpTo(FindPatternSet, MaxPatterns)}

(***************************************************************************)
(* ResponseModel (response_model.py).  A target type is described by what  *)
(* the code asks of it: whether it is a types.GenericAlias, whether it is  *)
(* an instance of type, and whether it subclasses pydantic's BaseModel.    *)
(***************************************************************************)
\* tests/models.py: class City(BaseModel) with the fields city and state
CityType ==
    [name |-> "City", generic_alias |-> FALSE, is_type |-> TRUE, basemodel |-> TRUE]

IntType ==
    [name |-> "int", generic_alias |-> FALSE, is_type |-> TRUE, basemodel |-> FALSE]

\* typing.Optional[int]: no class, and a type that admits None
OptionalIntType ==
    [name |-> "Optional[int]", generic_alias |-> FALSE, is_type |-> FALSE,
     basemodel |-> FALSE]

TargetTypes == {CityType, IntType, OptionalIntType}

\* list[str] and list[City]: instances of types.GenericAlias, for which
\* isinstance(t, type) is true up to Python 3.10 and false from 3.11 on
GenericAliasTypes ==
    {[name |-> n, generic_alias |-> TRUE, is_type |-> b, basemodel |-> FALSE] :
        n \in {"list[str]", "list[City]"}, b \in BOOLEAN}

\* a test that takes every class for a pydantic model
IsPydanticClass_any_class(t) == ~t.generic_alias /\ t.is_type

\* the test both original_type and _process_model make
IsPydanticClass(t) == ~t.generic_alias /\ t.is_type /\ t.basemodel

\* ResponseModel._process_model: the type itself, or a model named
\* ResponseModel with one field, value, of that type
process_model(t) ==
    IF IsPydanticClass(t)
    THEN [name |-> t.name, wrapper |-> FALSE, value_type |-> ""]
    ELSE [name |-> "ResponseModel", wrapper |-> TRUE, value_type |-> t.name]

\* a property that takes every class for a pydantic model
original_type_any_class(t) ==
    IF ~t.generic_alias /\ t.is_type THEN "pydantic" ELSE "python"

\* ResponseModel.original_type, the body of the property
original_type(t) == IF IsPydanticClass(t) THEN "pydantic" ELSE "python"

\* ResponseModel.__init__: the attributes of the object; original_type is the
\* entry cached_property keeps, "unset" until the property is first read
ResponseModel(t) ==
    [model |-> t, pydantic_model |-> process_model(t), original_type |-> "unset"]

\* a read of the property original_type: cached_property computes the value
\* on the first read and gives the kept value afterwards
read_original_type(rm) ==
    IF rm.original_type = "unset" THEN original_type(rm.model) ELSE rm.original_type

\* the object after a read of original_type
after_read_original_type(rm) ==
    [rm EXCEPT !.original_type = read_original_type(rm)]

(***************************************************************************)
(* Values a call can produce.  None is Python's None; an instance is a     *)
(* validated pydantic object; a value is a plain Python value.  The field  *)
(* value holds the value's repr.                                           *)
(***************************************************************************)
None == [kind |-> "None", cls |-> "", value |-> "None"]

Instance(cls, value) == [kind |-> "instance", cls |-> cls, value |-> value]

PlainValue(value) == [kind |-> "value", cls |-> "", value |-> value]

\* model.value of a validated wrapper instance
ValueField(instance) ==
    IF instance.value = "None" THEN None ELSE PlainValue(instance.value)

(***************************************************************************)
(* JSON strings the responses carry, and pydantic's model_validate_json on *)
(* them.                                                                   *)
(***************************************************************************)
\* {"value": 5}
JsonValue5 ==
    <<"{", "\"", "v", "a", "l", "u", "e", "\"", ":", " ", "5", "}">>

\* {"value": null}
JsonValueNull ==
    <<"{", "\"", "v", "a", "l", "u", "e", "\"", ":", " ", "n", "u", "l", "l",
      "}">>

\* {"city": "a", "state": "b"}
JsonCity ==
    <<"{", "\"", "c", "i", "t", "y", "\"", ":", " ", "\"", "a", "\"", ",",
      " ", "\"", "s", "t", "a", "t", "e", "\"", ":", " ", "\"", "b", "\"",
      "}">>

\* {"value": ["a"]}
JsonValueList ==
    <<"{", "\"", "v", "a", "l", "u", "e", "\"", ":", " ", "[", "\"", "a", "\"",
      "]", "}">>

\* {"value": []}
JsonValueEmptyList ==
    <<"{", "\"", "v", "a", "l", "u", "e", "\"", ":", " ", "[", "]", "}">>

\* {bad}
JsonBad ==
    <<"{", "b", "a", "d", "}">>

ValidationError(pydantic_model, json_string) ==
    [type |-> "ValidationError", title |-> pydantic_model.name, input |-> json_string]

\* pydantic_model.model_validate_json(json_string): the validated instance, or
\* the ValidationError raised.  Every string that is not one of the JSON
\* documents above is not valid JSON in this model's responses.
model_validate_json(pydantic_model, json_string) ==
    CASE /\ pydantic_model.wrapper
         /\ pydantic_model.value_type \in {"int", "Optional[int]"}
         /\ json_string = JsonValue5
           -> [ok |-> TRUE, instance |-> Instance("ResponseModel", "5"),
               error |-> ValidationError(pydantic_model, <<>>)]
      [] /\ pydantic_model.wrapper
         /\ pydantic_model.value_type = "Optional[int]"
         /\ json_string = JsonValueNull
           -> [ok |-> TRUE, instance |-> Instance("ResponseModel", "None"),
               error |-> ValidationError(pydantic_model, <<>>)]
      [] /\ pydantic_model.wrapper
         /\ pydantic_model.value_type = "list[str]"
         /\ json_string = JsonValueList
           -> [ok |-> TRUE, instance |-> Instance("ResponseModel", "['a']"),
               error |-> ValidationError(pydantic_model, <<>>)]
      [] /\ pydantic_model.wrapper
         /\ pydantic_model.value_type \in {"list[str]", "list[City]"}
         /\ json_string = JsonValueEmptyList
           -> [ok |-> TRUE, instance |-> Instance("ResponseModel", "[]"),
               error |-> ValidationError(pydantic_model, <<>>)]
      [] /\ ~pydantic_model.wrapper
         /\ pydantic_model.name = "City"
         /\ json_string = JsonCity
           -> [ok |-> TRUE, instance |-> Instance("City", "city='a' state='b'"),
               error |-> ValidationError(pydantic_model, <<>>)]
      [] OTHER
           -> [ok |-> FALSE, instance |-> None,
               error |-> ValidationError(pydantic_model, json_string)]

(***************************************************************************)
(* Exceptions (exceptions.py) and what Forge._process_response ends with.  *)
(***************************************************************************)
\* no exception
NoException == [type |-> "", exceptions |-> <<>>]

\* PatternNotFound("No JSON output found.")
PatternNotFound == [type |-> "PatternNotFound", exceptions |-> <<>>]

\* CombinedException(exceptions)
CombinedException(exceptions) ==
    [type |-> "CombinedException", exceptions |-> exceptions]

\* an exception raised by the client's send: none of the above
TransportError == [type |-> "TransportError", exceptions |-> <<>>]

(***************************************************************************)
(* Forge._process_response (forge.py:117-165).                             *)
(***************************************************************************)
\* the loop with only the latest ValidationError kept
RECURSIVE validate_loop_last_only(_, _, _, _, _)
validate_loop_last_only(rm, json_strings, i, exceptions, validated) ==
    IF i > Len(json_strings)
    THEN [model |-> None, rm |-> rm, exceptions |-> exceptions,
          validated |-> validated]
    ELSE LET r == model_validate_json(rm.pydantic_model, json_strings[i])
         IN  IF r.ok
             THEN [model |-> IF read_original_type(rm) = "python"
                             THEN ValueField(r.instance)
                             ELSE r.instance,
                   rm |-> after_read_original_type(rm),
                   exceptions |-> exceptions,
                   validated |-> Append(validated, json_strings[i])]
             ELSE validate_loop_last_only(rm, json_strings, i + 1,
                                          <<r.error>>,
                                          Append(validated, json_strings[i]))

\* The for loop over json_strings, from candidate i on.  validated lists the
\* candidates model_validate_json was called on.
RECURSIVE validate_loop(_, _, _, _, _)
validate_loop(rm, json_strings, i, exceptions, validated) ==
    IF i > Len(json_strings)
    THEN [model |-> None, rm |-> rm, exceptions |-> exceptions,
          validated |-> validated]
    ELSE LET r == model_validate_json(rm.pydantic_model, json_strings[i])
         IN  IF r.ok
             THEN [model |-> IF read_original_type(rm) = "python"
                             THEN ValueField(r.instance)
                             ELSE r.instance,
                   rm |-> after_read_original_type(rm),
                   exceptions |-> exceptions,
                   validated |-> Append(validated, json_strings[i])]
             ELSE validate_loop(rm, json_strings, i + 1,
                                Append(exceptions, r.error),
                                Append(validated, json_strings[i]))

\* the method without the check that JSON output was found
process_response_no_check(text, patterns, rm) ==
    LET json_strings == find_patterns(text, ListArg(patterns))
        l == validate_loop(rm, json_strings, 1, <<>>, <<>>)
    IN  IF l.exceptions # <<>> /\ l.model = None
        THEN [raised |-> CombinedException(l.exceptions), model |-> None, rm |-> l.rm,
              json_strings |-> json_strings, validated |-> l.validated]
        ELSE [raised |-> NoException, model |-> l.model, rm |-> l.rm,
              json_strings |-> json_strings, validated |-> l.validated]

\* the whole method: the exception raised (NoException when it returns), the
\* value returned, the candidates found and the candidates validated
process_response(text, patterns, rm) ==
    LET json_strings == find_patterns(text, ListArg(patterns))
    IN  IF json_strings = <<>>
        THEN [raised |-> PatternNotFound, model |-> None, rm |-> rm,
              json_strings |-> json_strings, validated |-> <<>>]
        ELSE LET l == validate_loop(rm, json_strings, 1, <<>>, <<>>)
             IN  IF l.exceptions # <<>> /\ l.model = None
                 THEN [raised |-> CombinedException(l.exceptions), model |-> None,
                       rm |-> l.rm, json_strings |-> json_strings, validated |-> l.validated]
                 ELSE [raised |-> NoException, model |-> l.model,
                       rm |-> l.rm, json_strings |-> json_strings, validated |-> l.validated]

(***************************************************************************)
(* Prompt text.  A text is a sequence of pieces, its characters being      *)
(* those of its pieces in order.  A piece of kind "text" is literal text;  *)
(* a piece of kind "var" is the template syntax that prints a variable     *)
(* (two opening braces, the name, two closing braces); a piece of kind     *)
(* "ifdef" is a block that prints a variable if it is defined and nothing  *)
(* otherwise; a piece of kind "feedback" is the text the Forge adds after  *)
(* a failed attempt.  In a rendered text a "var" or "ifdef" piece stands   *)
(* for its own characters, which the template engine did not interpret.    *)
(***************************************************************************)
Text(string) == [kind |-> "text", text |-> string, raised |-> NoException]

Var(name) == [kind |-> "var", text |-> name, raised |-> NoException]

IfDefined(name) == [kind |-> "ifdef", text |-> name, raised |-> NoException]

\* "\n"
NL == Text("\n")

\* f"\nTry again and fix the errors that occurred: {e.args}"
FeedbackBlock(e) ==
    [kind |-> "feedback", text |-> "\nTry again and fix the errors that occurred: ",
     raised |-> e]

(***************************************************************************)
(* Prompt (prompt.py).                                                     *)
(***************************************************************************)
\* prompt.py:11-20
RESPONSE_MODEL_TEXT ==
    <<Text("Your output MUST be a JSON object [...] Here is the OUTPUT SCHEMA:\n"),
      Var("response_model_json")>>

\* prompt.py:22-46
DEFAULT_PROMPT ==
    <<Text("You are an expert [...] Here is the OUTPUT SCHEMA:\n"),
      Var("response_model_json"), Text("\n\n"),
      IfDefined("examples"),
      Text("Input from user:")>>

\* Prompt.__init__: prompt or DEFAULT_PROMPT
init_prompt(prompt) == IF prompt = <<>> THEN DEFAULT_PROMPT ELSE prompt

\* _prompt_variables: None after construction, a set of names once assigned
NoCache == [computed |-> FALSE, names |-> {}]

Cached(names) == [computed |-> TRUE, names |-> names]

\* Python's truth value of _prompt_variables: None and the empty set are false
Truthy(cache) == cache.computed /\ cache.names # {}

\* meta.find_undeclared_variables(self._env.parse(prompt))
find_undeclared_variables(prompt) ==
    {prompt[i].text : i \in {j \in 1..Len(prompt) : prompt[j].kind \in {"var", "ifdef"}}}

\* the property Prompt.prompt_variables, read with the cache as it is: the set
\* returned, the cache afterwards and the number of times the text was parsed
prompt_variables(prompt, cache) ==
    IF Truthy(cache)
    THEN [value |-> cache.names, cache |-> cache, parses |-> 0]
    ELSE IF prompt = <<>>
         THEN [value |-> {}, cache |-> cache, parses |-> 0]
         ELSE [value |-> find_undeclared_variables(prompt),
               cache |-> Cached(find_undeclared_variables(prompt)),
               parses |-> 1]

\* the keyword arguments of render: which of user_input, response_model,
\* response_model_json and examples are given, and their values
Kwargs(has_user_input, input, has_response_model, pydantic_model, has_json, has_examples) ==
    [has_user_input |-> has_user_input, user_input |-> input,
     has_response_model |-> has_response_model, response_model |-> pydantic_model,
     has_json |-> has_json, json |-> IF has_json THEN "{test: 1}" ELSE "",
     has_examples |-> has_examples]

\* json.dumps(response_model.model_json_schema()): the schema of the model, or
\* of the type its one field value wraps
model_json_schema(pydantic_model) ==
    IF pydantic_model.wrapper THEN pydantic_model.value_type ELSE pydantic_model.name

\* Prompt._process_kwargs
process_kwargs(kwargs) ==
    IF kwargs.has_response_model
    THEN [kwargs EXCEPT !.has_json = TRUE,
                        !.json = model_json_schema(kwargs.response_model)]
    ELSE kwargs

\* the names the render context defines
ContextNames(kwargs) ==
    (IF kwargs.has_user_input THEN {"user_input"} ELSE {})
    \cup (IF kwargs.has_response_model THEN {"response_model"} ELSE {})
    \cup (IF kwargs.has_json THEN {"response_model_json"} ELSE {})
    \cup (IF kwargs.has_examples THEN {"examples"} ELSE {})

\* what printing the variable gives: the value, which is not parsed again
ContextValue(name, kwargs) ==
    CASE name = "user_input" -> kwargs.user_input
      [] name = "response_model_json" -> <<Text(kwargs.json)>>
      [] name = "response_model" -> <<Text(kwargs.response_model.name)>>
      [] OTHER -> <<Text("EXAMPLES")>>

\* the template source as jinja2 reads it: one trailing newline is dropped
\* (keep_trailing_newline is off)
DropTrailingNewline(source) ==
    IF source # <<>> /\ source[Len(source)] = NL
    THEN SubSeq(source, 1, Len(source) - 1)
    ELSE source

\* rendering the pieces one after the other
RECURSIVE render_pieces(_, _)
render_pieces(source, kwargs) ==
    IF source = <<>> THEN <<>>
    ELSE LET piece == Head(source)
             out == IF piece.kind \in {"var", "ifdef"}
                    THEN IF piece.text \in ContextNames(kwargs)
                         THEN ContextValue(piece.text, kwargs)
                         ELSE <<>>
                    ELSE <<piece>>
         IN  out \o render_pieces(Tail(source), kwargs)

\* self._env.from_string(source).render(**kwargs) with StrictUndefined: a
\* printed variable that the context does not define raises UndefinedError
jinja_render(source, kwargs) ==
    IF \E i \in 1..Len(source) :
          source[i].kind = "var" /\ source[i].text \notin ContextNames(kwargs)
    THEN [ok |-> FALSE, text |-> <<>>, exc |-> "UndefinedError"]
    ELSE [ok |-> TRUE, text |-> render_pieces(DropTrailingNewline(source), kwargs),
          exc |-> ""]

\* no read of prompt_variables: the condition before `and` was false
NoRead(cache) == [value |-> {}, cache |-> cache, parses |-> 0]

\* a render that puts the user-input line before the schema section
build_prompt_to_render_user_first(prompt, cache, prompt_kwargs) ==
    LET first == IF "response_model_json" \in ContextNames(prompt_kwargs)
                 THEN prompt_variables(prompt, cache)
                 ELSE NoRead(cache)
        second == IF "user_input" \in ContextNames(prompt_kwargs)
                  THEN prompt_variables(prompt, first.cache)
                  ELSE NoRead(first.cache)
        with_user_input ==
            IF /\ "user_input" \in ContextNames(prompt_kwargs)
               /\ "user_input" \notin second.value
            THEN prompt \o <<NL>> \o prompt_kwargs.user_input \o <<NL>>
            ELSE prompt
        with_schema ==
            IF /\ "response_model_json" \in ContextNames(prompt_kwargs)
               /\ "response_model_json" \notin first.value
            THEN with_user_input \o <<NL>> \o RESPONSE_MODEL_TEXT \o <<NL>>
            ELSE with_user_input
    IN  [prompt_to_render |-> with_schema, cache |-> second.cache,
         parses |-> first.parses + second.parses]

\* the text Prompt.render builds before rendering it, lines 103-116, with the
\* cache and the parse count after the two reads of prompt_variables
build_prompt_to_render(prompt, cache, prompt_kwargs) ==
    LET first == IF "response_model_json" \in ContextNames(prompt_kwargs)
                 THEN prompt_variables(prompt, cache)
                 ELSE NoRead(cache)
        with_schema ==
            IF /\ "response_model_json" \in ContextNames(prompt_kwargs)
               /\ "response_model_json" \notin first.value
            THEN prompt \o <<NL>> \o RESPONSE_MODEL_TEXT \o <<NL>>
            ELSE prompt
        second == IF "user_input" \in ContextNames(prompt_kwargs)
                  THEN prompt_variables(prompt, first.cache)
                  ELSE NoRead(first.cache)
        with_user_input ==
            IF /\ "user_input" \in ContextNames(prompt_kwargs)
               /\ "user_input" \notin second.value
            THEN with_schema \o <<NL>> \o prompt_kwargs.user_input \o <<NL>>
            ELSE with_schema
    IN  [prompt_to_render |-> with_user_input, cache |-> second.cache,
         parses |-> first.parses + second.parses]

\* a render that appends to the stored template instead of a copy of it
render_in_place(prompt, cache, kwargs) ==
    LET prompt_kwargs == process_kwargs(kwargs)
        built == build_prompt_to_render(prompt, cache, prompt_kwargs)
    IN  [prompt |-> built.prompt_to_render, cache |-> built.cache,
         parses |-> built.parses,
         prompt_to_render |-> built.prompt_to_render,
         rendered |-> jinja_render(built.prompt_to_render, prompt_kwargs)]

\* Prompt.render: self.prompt and the cache after the call, the number of
\* times the template text was parsed, the text built and the result
render(prompt, cache, kwargs) ==
    LET prompt_kwargs == process_kwargs(kwargs)
        built == build_prompt_to_render(prompt, cache, prompt_kwargs)
    IN  [prompt |-> prompt, cache |-> built.cache, parses |-> built.parses,
         prompt_to_render |-> built.prompt_to_render,
         rendered |-> jinja_render(built.prompt_to_render, prompt_kwargs)]

(***************************************************************************)
(* tenacity: Retrying(stop=stop_after_attempt(max_retries)).               *)
(***************************************************************************)
\* a stop condition that lets one more attempt through
stop_after_attempt_late(max_attempt_number, attempt_no) ==
    attempt_no > max_attempt_number

\* a stop condition that waits for the attempt numbered max_attempt_number
stop_after_attempt_exact(max_attempt_number, attempt_no) ==
    attempt_no = max_attempt_number

\* stop_after_attempt.__call__
stop_after_attempt(max_attempt_number, attempt_no) ==
    attempt_no >= max_attempt_number

(***************************************************************************)
(* The responses of the language model.                                    *)
(***************************************************************************)
Fence(json_string) ==
    FencePattern.open \o <<"\n">> \o json_string \o <<"\n">> \o FencePattern.close

\* no JSON at all
TextNoJson == <<"n", "o">>

\* a fenced block that is not valid JSON, then a fenced {"value": 5}
TextBadThen5 == Fence(JsonBad) \o <<"\n">> \o Fence(JsonValue5)

\* a fenced block that is not valid JSON, then a fenced {"value": null}
TextBadThenNull == Fence(JsonBad) \o <<"\n">> \o Fence(JsonValueNull)

\* {"value": null} on its own
TextNull == JsonValueNull

\* some words, then a City document
TextCity == <<"o", "k", " ">> \o JsonCity

ResponseTexts ==
    {TextNoJson, TextBadThen5, TextBadThenNull, TextNull, TextCity}

\* the user_input argument of generate: plain text, and text that prints a
\* variable, which is defined only in a call whose prompt_values give it
UserInputs == {<<Text("u1")>>, <<Var("examples")>>}

\* a template that prints a variable no generate call of the model supplies
TemplateNamed == <<Text("Hello "), Var("name")>>

\* the prompt argument of Forge: None, for the default prompt, or a template
ForgePromptArgs == {<<>>, TemplateNamed}

\* the prompt_values argument of generate: None, or a dict that gives examples
PromptValues == {{}, {"examples"}}

\* forge.py:90-94: the keyword arguments generate gives to render, with the
\* names of prompt_values unpacked after user_input and response_model
generate_kwargs(input, pydantic_model, values) ==
    Kwargs(TRUE, input, TRUE, pydantic_model, FALSE, "examples" \in values)

DefaultMatchPatterns == <<FencePattern, BracePattern>>

(***************************************************************************)
(* How a generate call ends.                                               *)
(***************************************************************************)
NoOutcome == [kind |-> "none", value |-> None, exc |-> "", payload |-> <<>>]

Return(value) == [kind |-> "return", value |-> value, exc |-> "", payload |-> <<>>]

Raise(exc, payload) == [kind |-> "raise", value |-> None, exc |-> exc, payload |-> payload]

\* a handler that raises whatever raise_on_failure is
retry_error_outcome_always_raises(raise_flag, prompt, model_response) ==
    Raise("ModelNotDerivedError", prompt)

\* a handler that raises with the prompt as it was first rendered
retry_error_outcome_first_prompt(raise_flag, prompt, model_response) ==
    IF raise_flag
    THEN Raise("ModelNotDerivedError",
               SelectSeq(prompt, LAMBDA piece : piece.kind # "feedback"))
    ELSE Return(model_response)

\* a handler that raises when raise_on_failure is false and returns otherwise
retry_error_outcome_swapped(raise_flag, prompt, model_response) ==
    IF raise_flag
    THEN Return(model_response)
    ELSE Raise("ModelNotDerivedError", prompt)

\* a handler that raises the exception of the last attempt again, as named in
\* the feedback the prompt ends with
retry_error_outcome_reraises(raise_flag, prompt, model_response) ==
    IF raise_flag
    THEN Raise(prompt[Len(prompt)].raised.type, prompt)
    ELSE Return(model_response)

\* forge.py:110-115: the handler of tenacity's RetryError, then the return
retry_error_outcome(raise_flag, prompt, model_response) ==
    IF raise_flag
    THEN Raise("ModelNotDerivedError", prompt)
    ELSE Return(model_response)

\* an except clause that catches every exception
prompt_after_failure_any(prompt, e) == Append(prompt, FeedbackBlock(e))

\* forge.py:103-108: the prompt after an attempt that raised e inside the
\* with block
prompt_after_failure(prompt, e) ==
    IF e.type \in {"CombinedException", "PatternNotFound"}
    THEN Append(prompt, FeedbackBlock(e))
    ELSE prompt

\* Forge.__init__, forge.py:67-69: a single string is put in a tuple
init_match_patterns(arg) == IF arg.isstr THEN <<arg.value>> ELSE arg.value

MatchPatternArgs == {ListArg(DefaultMatchPatterns), StrArg(BracePattern)}

(***************************************************************************)
(* The state after construction.                                           *)
(***************************************************************************)
FindIdle ==
    /\ fp_text = <<>>
    /\ fp_patterns = ListArg(<<>>)
    /\ fp_result = <<>>
    /\ fp_pc = "off"

ForgeConstructed ==
    /\ max_retries \in -1..MaxRetries
    /\ raise_on_failure \in BOOLEAN
    /\ response_model \in {ResponseModel(t) : t \in TargetTypes}
    /\ match_patterns \in {init_match_patterns(a) : a \in MatchPatternArgs}
    /\ pc = "idle"
    /\ calls = 0
    /\ prepared_prompt = <<>>
    /\ attempt_number = 0
    /\ response = <<>>
    /\ sent = <<>>
    /\ attempts = <<>>
    /\ outcome = NoOutcome
    /\ user_input = <<>>
    /\ prompt_values = {}
    /\ p_prompt \in {init_prompt(a) : a \in ForgePromptArgs}
    /\ p_cache = NoCache
    /\ p_parses = 0
    /\ p_calls = <<>>

Init == FindIdle /\ ForgeConstructed /\ threads = <<>>

(***************************************************************************)
(* Forge.generate (forge.py:74-115).                                       *)
(***************************************************************************)
\* lines 90-98: the prompt is rendered, outside the try; when render raises,
\* the call ends with that exception before the Retrying loop, and otherwise
\* the loop begins its first attempt
GenerateStart(input, values) ==
    /\ pc \in {"idle", "done"}
    /\ calls < MaxCalls
    /\ calls' = calls + 1
    /\ user_input' = input
    /\ prompt_values' = values
    /\ LET r == render(p_prompt, p_cache,
                       generate_kwargs(input, response_model.pydantic_model, values))
       IN  /\ p_prompt' = r.prompt
           /\ p_cache' = r.cache
           /\ p_parses' = p_parses + r.parses
           /\ IF r.rendered.ok
              THEN /\ prepared_prompt' = r.rendered.text
                   /\ attempt_number' = 1
                   /\ outcome' = NoOutcome
                   /\ pc' = "send"
              ELSE /\ prepared_prompt' = <<>>
                   /\ attempt_number' = 0
                   /\ outcome' = Raise(r.rendered.exc, <<>>)
                   /\ pc' = "done"
    /\ response' = <<>>
    /\ sent' = <<>>
    /\ attempts' = <<>>
    /\ UNCHANGED <<max_retries, raise_on_failure, response_model, match_patterns,
                   p_calls, threads>>
    /\ UNCHANGED fpVars

\* tenacity after an attempt that raised e: RetryError once stop_after_attempt
\* says stop, another attempt otherwise
AttemptFailed(e, result) ==
    /\ attempts' = Append(attempts,
                          [raised |-> e, model |-> None, prompt |-> prepared_prompt,
                           json_strings |-> result.json_strings,
                           validated |-> result.validated])
    /\ prepared_prompt' = prompt_after_failure(prepared_prompt, e)
    /\ IF stop_after_attempt(max_retries, attempt_number)
       THEN pc' = "retry_error" /\ attempt_number' = attempt_number
       ELSE pc' = "send" /\ attempt_number' = attempt_number + 1

\* line 101: send returns a response
Send(text) ==
    /\ pc = "send"
    /\ sent' = Append(sent, prepared_prompt)
    /\ response' = text
    /\ pc' = "process"
    /\ UNCHANGED <<max_retries, raise_on_failure, response_model, match_patterns,
                   calls, prepared_prompt, attempt_number, attempts, outcome,
                   user_input, prompt_values>>
    /\ UNCHANGED <<fpVars, promptVars, threads>>

\* line 101: send raises
SendRaises ==
    /\ pc = "send"
    /\ sent' = Append(sent, prepared_prompt)
    /\ AttemptFailed(TransportError, [json_strings |-> <<>>, validated |-> <<>>])
    /\ UNCHANGED <<max_retries, raise_on_failure, response_model, match_patterns,
                   calls, response, outcome, user_input, prompt_values>>
    /\ UNCHANGED <<fpVars, promptVars, threads>>

\* _process_response for every response text, pattern tuple and descriptor a
\* Forge of the model can hold, computed once and looked up by the steps below
process_response_table ==
    [text \in ResponseTexts |->
        [patterns \in {init_match_patterns(a) : a \in MatchPatternArgs} |->
            [rm \in {ResponseModel(t) : t \in TargetTypes}
                    \cup {after_read_original_type(ResponseModel(t)) : t \in TargetTypes} |->
                process_response(text, patterns, rm)]]]

\* lines 102-108 and 115: the response is processed; the call returns the
\* value, or the attempt fails
ProcessResponse ==
    /\ pc = "process"
    /\ LET result == process_response_table[response][match_patterns][response_model]
       IN  IF result.raised = NoException
           THEN /\ attempts' = Append(attempts,
                                      [raised |-> NoException, model |-> result.model,
                                       prompt |-> prepared_prompt,
                                       json_strings |-> result.json_strings,
                                       validated |-> result.validated])
                /\ outcome' = Return(result.model)
                /\ pc' = "done"
                /\ response_model' = result.rm
                /\ UNCHANGED <<prepared_prompt, attempt_number>>
           ELSE /\ AttemptFailed(result.raised, result)
                /\ response_model' = result.rm
                /\ UNCHANGED outcome
    /\ UNCHANGED <<max_retries, raise_on_failure, match_patterns,
                   calls, response, sent, user_input, prompt_values>>
    /\ UNCHANGED <<fpVars, promptVars, threads>>

\* lines 110-115: RetryError is caught
HandleRetryError ==
    /\ pc = "retry_error"
    /\ outcome' = retry_error_outcome(raise_on_failure, prepared_prompt, None)
    /\ pc' = "done"
    /\ UNCHANGED <<max_retries, raise_on_failure, response_model, match_patterns,
                   calls, prepared_prompt, attempt_number, response, sent, attempts,
                   user_input, prompt_values>>
    /\ UNCHANGED <<fpVars, promptVars, threads>>

Next ==
    \/ \E input \in UserInputs, values \in PromptValues : GenerateStart(input, values)
    \/ \E text \in ResponseTexts : Send(text)
    \/ SendRaises
    \/ ProcessResponse
    \/ HandleRetryError

Spec == Init /\ [][Next]_vars

(***************************************************************************)
(* find_patterns on its own.                                               *)
(***************************************************************************)
ForgeIdle ==
    /\ max_retries = 1
    /\ raise_on_failure = TRUE
    /\ response_model = ResponseModel(IntType)
    /\ match_patterns = DefaultMatchPatterns
    /\ pc = "off"
    /\ calls = 0
    /\ prepared_prompt = <<>>
    /\ attempt_number = 0
    /\ response = <<>>
    /\ sent = <<>>
    /\ attempts = <<>>
    /\ outcome = NoOutcome
    /\ user_input = <<>>
    /\ prompt_values = {}

\* no thread runs generate
ThreadsIdle == threads = <<>>

PromptIdle ==
    /\ p_prompt = <<>>
    /\ p_cache = NoCache
    /\ p_parses = 0
    /\ p_calls = <<>>

InitFind ==
    /\ fp_text \in FindTexts
    /\ fp_patterns \in FindPatternArgs
    /\ fp_result = <<>>
    /\ fp_pc = "call"
    /\ ForgeIdle
    /\ PromptIdle
    /\ ThreadsIdle

FindPatternsCall ==
    /\ fp_pc = "call"
    /\ fp_result' = find_patterns(fp_text, fp_patterns)
    /\ fp_pc' = "done"
    /\ UNCHANGED <<fp_text, fp_patterns>>
    /\ UNCHANGED <<forgeVars, promptVars, threads>>

NextFind == FindPatternsCall

SpecFind == InitFind /\ [][NextFind]_vars

(***************************************************************************)
(* A ResponseModel and Forge._process_response on their own: a descriptor  *)
(* is constructed for a target type, and responses are processed with it.  *)
(***************************************************************************)
AdapterTypes == TargetTypes \cup GenericAliasTypes

\* {"value": ["a"]} and {"value": []} on their own
TextList == JsonValueList

TextEmptyList == JsonValueEmptyList

AdapterTexts == ResponseTexts \cup {TextList, TextEmptyList}

InitAdapter ==
    /\ max_retries = 1
    /\ raise_on_failure = TRUE
    /\ response_model \in {ResponseModel(t) : t \in AdapterTypes}
    /\ match_patterns \in {init_match_patterns(a) : a \in MatchPatternArgs}
    /\ pc = "adapter"
    /\ calls = 0
    /\ prepared_prompt = <<>>
    /\ attempt_number = 0
    /\ response = <<>>
    /\ sent = <<>>
    /\ attempts = <<>>
    /\ outcome = NoOutcome
    /\ user_input = <<>>
    /\ prompt_values = {}
    /\ FindIdle
    /\ PromptIdle
    /\ ThreadsIdle

\* self._process_response(text): the value returned or the exception raised
ProcessResponseCall(text) ==
    /\ pc = "adapter"
    /\ calls < MaxCalls
    /\ calls' = calls + 1
    /\ response' = text
    /\ LET result == process_response(text, match_patterns, response_model)
       IN  /\ response_model' = result.rm
           /\ attempts' = <<[raised |-> result.raised, model |-> result.model,
                             prompt |-> <<>>,
                             json_strings |-> result.json_strings,
                             validated |-> result.validated]>>
           /\ outcome' = IF result.raised = NoException
                         THEN Return(result.model)
                         ELSE Raise(result.raised.type, <<>>)
    /\ UNCHANGED <<max_retries, raise_on_failure, match_patterns, pc,
                   prepared_prompt, attempt_number, sent, user_input, prompt_values>>
    /\ UNCHANGED <<fpVars, promptVars, threads>>

NextAdapter == \E text \in AdapterTexts : ProcessResponseCall(text)

SpecAdapter == InitAdapter /\ [][NextAdapter]_vars

(***************************************************************************)
(* A Prompt on its own: render calls and reads of prompt_variables.        *)
(***************************************************************************)
\* a template that references no variable
TemplatePlain == <<Text("Hello")>>

\* a template that references response_model_json
TemplateSchema == <<Text("Schema: "), Var("response_model_json")>>

\* a template that references user_input and ends with a newline
TemplateUser == <<Text("Question: "), Var("user_input"), NL>>

\* a template that references both
TemplateBoth ==
    <<Text("Schema: "), Var("response_model_json"), Text(" Question: "),
      Var("user_input")>>

\* the prompt argument of Prompt: None, or a template
PromptArgs == {<<>>, TemplatePlain, TemplateSchema, TemplateUser, TemplateBoth}

\* user input: plain text, and text that holds template syntax
PromptUserInputs ==
    {<<Text("World!")>>, <<Text("Show "), Var("response_model_json")>>}

NoKwargs == Kwargs(FALSE, <<>>, FALSE, process_model(CityType), FALSE, FALSE)

RenderKwargs ==
    {Kwargs(TRUE, u, has_response_model, process_model(CityType), has_json,
            has_examples) :
        u \in PromptUserInputs, has_response_model \in BOOLEAN,
        has_json \in BOOLEAN, has_examples \in BOOLEAN}
    \cup {Kwargs(FALSE, <<>>, has_response_model, process_model(CityType),
                 has_json, has_examples) :
              has_response_model \in BOOLEAN, has_json \in BOOLEAN,
              has_examples \in BOOLEAN}

NotRendered == [ok |-> FALSE, text |-> <<>>, exc |-> ""]

InitPrompt ==
    /\ p_prompt \in {init_prompt(a) : a \in PromptArgs}
    /\ p_cache = NoCache
    /\ p_parses = 0
    /\ p_calls = <<>>
    /\ FindIdle
    /\ ForgeIdle
    /\ ThreadsIdle

\* prompt.render(**kwargs)
PromptRender(kwargs) ==
    /\ Len(p_calls) < MaxRenders
    /\ LET r == render(p_prompt, p_cache, kwargs)
       IN  /\ p_prompt' = r.prompt
           /\ p_cache' = r.cache
           /\ p_parses' = p_parses + r.parses
           /\ p_calls' = Append(p_calls,
                                [op |-> "render", kwargs |-> kwargs,
                                 cache_before |-> p_cache, parses |-> r.parses,
                                 names |-> {},
                                 prompt_to_render |-> r.prompt_to_render,
                                 rendered |-> r.rendered])
    /\ UNCHANGED <<fpVars, forgeVars, threads>>

\* prompt.prompt_variables
PromptVariablesRead ==
    /\ Len(p_calls) < MaxRenders
    /\ LET r == prompt_variables(p_prompt, p_cache)
       IN  /\ p_cache' = r.cache
           /\ p_parses' = p_parses + r.parses
           /\ p_calls' = Append(p_calls,
                                [op |-> "prompt_variables", kwargs |-> NoKwargs,
                                 cache_before |-> p_cache, parses |-> r.parses,
                                 names |-> r.value,
                                 prompt_to_render |-> <<>>,
                                 rendered |-> NotRendered])
    /\ UNCHANGED p_prompt
    /\ UNCHANGED <<fpVars, forgeVars, threads>>

NextPrompt ==
    \/ \E kwargs \in RenderKwargs : PromptRender(kwargs)
    \/ PromptVariablesRead

SpecPrompt == InitPrompt /\ [][NextPrompt]_vars

(***************************************************************************)
(* Two threads that each call generate once on one Forge, after an earlier *)
(* call on it has ended.  The locals of a call live in its thread; the     *)
(* Forge, its Prompt and its ResponseModel, with their caches, are shared. *)
(***************************************************************************)
Threads == {1, 2}

\* the user_input of each thread's call
ThreadInput(t) == IF t = 1 THEN <<Text("u1")>> ELSE <<Text("u2")>>

\* what send gives an attempt: a response text, or an exception
Responded(text) == [raises |-> FALSE, text |-> text]

SendRaised == [raises |-> TRUE, text |-> <<>>]

ConcTexts == {TextNoJson, TextBadThenNull, TextNull}

\* the prompt argument of the shared Forge: None, or a template without
\* variables
ConcPromptArgs == {<<>>, TemplatePlain}

\* a thread before its call; `responses` lists what send gave the attempts
\* that have ended
ThreadIdle ==
    [pc |-> "idle", user_input |-> <<>>, prepared_prompt |-> <<>>,
     attempt_number |-> 0, response |-> <<>>, responses |-> <<>>,
     sent |-> <<>>, outcome |-> NoOutcome]

\* prepared_prompt kept in one place for all calls, the first thread's
prepared_prompt_shared(ts, t) == ts[1].prepared_prompt

\* prepared_prompt is a local of generate: the call of thread t reads its own
prepared_prompt_of(ts, t) == ts[t].prepared_prompt

\* what an attempt ends with when send raised, in the shape of
\* process_response
send_raised_result(rm) ==
    [raised |-> TransportError, model |-> None, rm |-> rm,
     json_strings |-> <<>>, validated |-> <<>>]

\* generate run alone from attempt n on, given what send gives its attempts:
\* the prompts sent, the prompt held and the outcome (NoOutcome while the
\* call waits for a response that `responses` does not hold)
RECURSIVE generate_alone(_, _, _, _, _, _, _, _)
generate_alone(retries, raise_flag, patterns, rm, prompt, n, responses, sent_so_far) ==
    IF responses = <<>>
    THEN [sent |-> sent_so_far, prepared_prompt |-> prompt, outcome |-> NoOutcome]
    ELSE LET given == Head(responses)
             result == IF given.raises
                       THEN send_raised_result(rm)
                       ELSE process_response_table[given.text][patterns][rm]
             failed_prompt == prompt_after_failure(prompt, result.raised)
         IN  IF result.raised = NoException
             THEN [sent |-> Append(sent_so_far, prompt), prepared_prompt |-> prompt,
                   outcome |-> Return(result.model)]
             ELSE IF stop_after_attempt(retries, n)
                  THEN [sent |-> Append(sent_so_far, prompt),
                        prepared_prompt |-> failed_prompt,
                        outcome |-> retry_error_outcome(raise_flag, failed_prompt,
                                                        None)]
                  ELSE generate_alone(retries, raise_flag, patterns, result.rm,
                                      failed_prompt, n + 1, Tail(responses),
                                      Append(sent_so_far, prompt))

\* an earlier call on the Forge has ended: its render read prompt_variables
\* (twice when the set is empty, which the cache test takes for no cache), and
\* original_type was read if that call validated a candidate
InitConc ==
    /\ max_retries \in 1..ConcMaxRetries
    /\ raise_on_failure \in BOOLEAN
    /\ response_model \in {ResponseModel(OptionalIntType),
                            after_read_original_type(ResponseModel(OptionalIntType))}
    /\ match_patterns = DefaultMatchPatterns
    /\ \E a \in ConcPromptArgs, input \in UserInputs :
          LET earlier == render(init_prompt(a), NoCache,
                                generate_kwargs(input, response_model.pydantic_model, {}))
          IN  /\ p_prompt = earlier.prompt
              /\ p_cache = earlier.cache
              /\ p_parses = earlier.parses
    /\ p_calls = <<>>
    /\ threads = [t \in Threads |-> ThreadIdle]
    /\ pc = "threads"
    /\ calls = 1
    /\ prepared_prompt = <<>>
    /\ attempt_number = 0
    /\ response = <<>>
    /\ sent = <<>>
    /\ attempts = <<>>
    /\ outcome = NoOutcome
    /\ user_input = <<>>
    /\ prompt_values = {}
    /\ FindIdle

ConcFrame == UNCHANGED <<max_retries, raise_on_failure, match_patterns, pc, calls,
                         prepared_prompt, attempt_number, response, sent,
                         attempts, outcome, user_input, prompt_values, p_calls,
                         fpVars>>

\* forge.py:90-98 in thread t
ThreadGenerateStart(t) ==
    /\ threads[t].pc = "idle"
    /\ LET r == render(p_prompt, p_cache,
                       generate_kwargs(ThreadInput(t), response_model.pydantic_model, {}))
       IN  /\ threads' = [threads EXCEPT ![t] =
                             [@ EXCEPT !.pc = "send",
                                       !.user_input = ThreadInput(t),
                                       !.prepared_prompt = r.rendered.text,
                                       !.attempt_number = 1]]
           /\ p_prompt' = r.prompt
           /\ p_cache' = r.cache
           /\ p_parses' = p_parses + r.parses
    /\ UNCHANGED response_model
    /\ ConcFrame

\* the thread's attempt raised e: forge.py:103-108, then tenacity
ThreadAttemptFailed(t, e, given) ==
    threads' = [threads EXCEPT ![t] =
                   [@ EXCEPT !.prepared_prompt =
                                 prompt_after_failure(prepared_prompt_of(threads, t), e),
                             !.responses = Append(@, given),
                             !.sent = IF given.raises
                                      THEN Append(@, prepared_prompt_of(threads, t))
                                      ELSE @,
                             !.pc = IF stop_after_attempt(max_retries,
                                                          threads[t].attempt_number)
                                    THEN "retry_error"
                                    ELSE "send",
                             !.attempt_number =
                                 IF stop_after_attempt(max_retries,
                                                       threads[t].attempt_number)
                                 THEN @
                                 ELSE @ + 1]]

\* line 101 in thread t: send returns a response
ThreadSend(t, text) ==
    /\ threads[t].pc = "send"
    /\ threads' = [threads EXCEPT ![t] =
                      [@ EXCEPT !.sent = Append(@, prepared_prompt_of(threads, t)),
                                !.response = text,
                                !.pc = "process"]]
    /\ UNCHANGED <<response_model, promptVars>>
    /\ ConcFrame

\* line 101 in thread t: send raises
ThreadSendRaises(t) ==
    /\ threads[t].pc = "send"
    /\ ThreadAttemptFailed(t, TransportError, SendRaised)
    /\ UNCHANGED <<response_model, p_prompt, p_cache, p_parses>>
    /\ ConcFrame

\* lines 102-108 and 115 in thread t
ThreadProcessResponse(t) ==
    /\ threads[t].pc = "process"
    /\ LET result == process_response_table[threads[t].response][match_patterns][response_model]
       IN  /\ response_model' = result.rm
           /\ IF result.raised = NoException
              THEN threads' = [threads EXCEPT ![t] =
                                  [@ EXCEPT !.responses =
                                                Append(@, Responded(threads[t].response)),
                                            !.outcome = Return(result.model),
                                            !.pc = "done"]]
              ELSE ThreadAttemptFailed(t, result.raised,
                                       Responded(threads[t].response))
    /\ UNCHANGED <<p_prompt, p_cache, p_parses>>
    /\ ConcFrame

\* lines 110-115 in thread t
ThreadHandleRetryError(t) ==
    /\ threads[t].pc = "retry_error"
    /\ threads' = [threads EXCEPT ![t] =
                      [@ EXCEPT !.outcome =
                                    retry_error_outcome(raise_on_failure,
                                                        prepared_prompt_of(threads, t),
                                                        None),
                                !.pc = "done"]]
    /\ UNCHANGED <<response_model, p_prompt, p_cache, p_parses>>
    /\ ConcFrame

NextConc ==
    \E t \in Threads :
        \/ ThreadGenerateStart(t)
        \/ \E text \in ConcTexts : ThreadSend(t, text)
        \/ ThreadSendRaises(t)
        \/ ThreadProcessResponse(t)
        \/ ThreadHandleRetryError(t)

SpecConc == InitConc /\ [][NextConc]_vars

(***************************************************************************)
(* Two threads that each call render once on one Prompt whose variable set *)
(* has not been computed.  The statements of prompt_variables are steps of *)
(* their own: the test of the cache, the parse, the assignment and the     *)
(* read of the attribute for the return.                                   *)
(***************************************************************************)
RaceKwargs ==
    {Kwargs(TRUE, <<Text("World!")>>, FALSE, process_model(CityType), TRUE, FALSE),
     Kwargs(TRUE, <<Text("World!")>>, FALSE, process_model(CityType), FALSE, FALSE),
     Kwargs(FALSE, <<>>, TRUE, process_model(CityType), FALSE, FALSE)}

\* a thread before its render call; `access` is the read of prompt_variables
\* it is in, 1 at line 109 and 2 at line 115; `parsed` is the set the parse
\* gave, not yet assigned
RaceThread(kwargs) ==
    [pc |-> "idle", access |-> 0, kwargs |-> kwargs, prompt_to_render |-> <<>>,
     parsed |-> {}, rendered |-> NotRendered]

\* the first read of prompt_variables a render makes: `and` skips the read
\* when the name is not among the keyword arguments
first_access(kwargs) ==
    IF "response_model_json" \in ContextNames(process_kwargs(kwargs)) THEN 1
    ELSE IF "user_input" \in ContextNames(process_kwargs(kwargs)) THEN 2
    ELSE 0

\* lines 107-116: the thread after its read of prompt_variables gave `value`
after_access(c, value) ==
    LET prompt_kwargs == process_kwargs(c.kwargs)
        appended ==
            IF c.access = 1
            THEN IF "response_model_json" \notin value
                 THEN c.prompt_to_render \o <<NL>> \o RESPONSE_MODEL_TEXT \o <<NL>>
                 ELSE c.prompt_to_render
            ELSE IF "user_input" \notin value
                 THEN c.prompt_to_render \o <<NL>> \o prompt_kwargs.user_input \o <<NL>>
                 ELSE c.prompt_to_render
        more == c.access = 1 /\ "user_input" \in ContextNames(prompt_kwargs)
    IN  [c EXCEPT !.prompt_to_render = appended,
                  !.access = IF more THEN 2 ELSE 0,
                  !.pc = IF more THEN "check" ELSE "render"]

\* an assignment that publishes the set before its names are in it
assigned_cache_unfinished(parsed) == Cached({})

\* lines 86-88: the attribute after the assignment of the parsed set
assigned_cache(parsed) == Cached(parsed)

InitRace ==
    /\ p_prompt \in {init_prompt(a) : a \in PromptArgs}
    /\ p_cache = NoCache
    /\ p_parses = 0
    /\ p_calls = <<>>
    /\ threads \in [Threads -> {RaceThread(k) : k \in RaceKwargs}]
    /\ FindIdle
    /\ ForgeIdle

RaceFrame == UNCHANGED <<fpVars, forgeVars, p_prompt, p_calls>>

\* lines 99-103, up to the first read of prompt_variables
RaceStart(t) ==
    /\ threads[t].pc = "idle"
    /\ threads' = [threads EXCEPT ![t] =
                      [@ EXCEPT !.prompt_to_render = p_prompt,
                                !.access = first_access(threads[t].kwargs),
                                !.pc = IF first_access(threads[t].kwargs) = 0
                                       THEN "render"
                                       ELSE "check"]]
    /\ UNCHANGED <<p_cache, p_parses>>
    /\ RaceFrame

\* lines 80-84: the tests at the head of prompt_variables
RaceCheck(t) ==
    /\ threads[t].pc = "check"
    /\ threads' = [threads EXCEPT ![t] =
                      IF Truthy(p_cache)
                      THEN after_access(@, p_cache.names)
                      ELSE IF p_prompt = <<>>
                           THEN after_access(@, {})
                           ELSE [@ EXCEPT !.pc = "parse"]]
    /\ UNCHANGED <<p_cache, p_parses>>
    /\ RaceFrame

\* lines 86-88: the template text is parsed
RaceParse(t) ==
    /\ threads[t].pc = "parse"
    /\ threads' = [threads EXCEPT ![t] =
                      [@ EXCEPT !.parsed = find_undeclared_variables(p_prompt),
                                !.pc = "assign"]]
    /\ p_parses' = p_parses + 1
    /\ UNCHANGED p_cache
    /\ RaceFrame

\* lines 86-88: the parsed set is assigned to self._prompt_variables
RaceAssign(t) ==
    /\ threads[t].pc = "assign"
    /\ p_cache' = assigned_cache(threads[t].parsed)
    /\ threads' = [threads EXCEPT ![t] = [@ EXCEPT !.pc = "return"]]
    /\ UNCHANGED p_parses
    /\ RaceFrame

\* line 90: self._prompt_variables is read and returned
RaceReturn(t) ==
    /\ threads[t].pc = "return"
    /\ threads' = [threads EXCEPT ![t] = after_access(@, p_cache.names)]
    /\ UNCHANGED <<p_cache, p_parses>>
    /\ RaceFrame

\* lines 119-124
RaceRender(t) ==
    /\ threads[t].pc = "render"
    /\ threads' = [threads EXCEPT ![t] =
                      [@ EXCEPT !.rendered =
                                    jinja_render(threads[t].prompt_to_render,
                                                 process_kwargs(threads[t].kwargs)),
                                !.pc = "done"]]
    /\ UNCHANGED <<p_cache, p_parses>>
    /\ RaceFrame

NextRace ==
    \E t \in Threads :
        \/ RaceStart(t)
        \/ RaceCheck(t)
        \/ RaceParse(t)
        \/ RaceAssign(t)
        \/ RaceReturn(t)
        \/ RaceRender(t)

SpecRace == InitRace /\ [][NextRace]_vars

(***************************************************************************)
(* Properties of Forge.generate and Forge._process_response, checked under *)
(* Spec.                                                                   *)
(***************************************************************************)
ExtractionFailures == {"PatternNotFound", "CombinedException"}

\* the attempt ended with PatternNotFound or CombinedException
FailedExtraction(a) == a.raised.type \in ExtractionFailures

\* every attempt made so far failed extraction or validation
AllFailedExtraction ==
    /\ Len(attempts) >= 1
    /\ \A i \in 1..Len(attempts) : FailedExtraction(attempts[i])

\* the candidates of an attempt that validate against the response model
ValidCandidates(a) ==
    {k \in 1..Len(a.json_strings) :
        model_validate_json(response_model.pydantic_model, a.json_strings[k]).ok}

\* the value the validated candidate k of an attempt stands for
CandidateValue(a, k) ==
    LET instance == model_validate_json(response_model.pydantic_model,
                                        a.json_strings[k]).instance
    IN  IF read_original_type(response_model) = "python"
        THEN ValueField(instance)
        ELSE instance

\* C1: with max_retries = N >= 1, a call in which every attempt ended with
\* PatternNotFound or CombinedException has called send exactly N times when it
\* ends, and at no point more than N times.
C1_ExactlyNSends ==
    (max_retries >= 1 /\ AllFailedExtraction) =>
        /\ Len(sent) <= max_retries
        /\ (pc = "done" => Len(sent) = max_retries)

\* a call with max_retries = 3 that ended after three failed attempts, of both
\* kinds
C1_Witness ==
    /\ pc = "done"
    /\ max_retries = 3
    /\ AllFailedExtraction
    /\ Len(sent) = 3
    /\ \E i, j \in 1..Len(attempts) :
          /\ attempts[i].raised.type = "PatternNotFound"
          /\ attempts[j].raised.type = "CombinedException"

\* C2: an error raised by send reaches the caller at once: no send follows it
\* in the call, and the call ends raising that error.
C2_TransportErrorPropagates ==
    \A i \in 1..Len(attempts) :
        (max_retries >= 1 /\ attempts[i].raised.type = "TransportError") =>
            /\ Len(sent) = i
            /\ (pc = "done" => outcome = Raise("TransportError", <<>>))

\* C3: a call all of whose attempts failed extraction or validation ends with
\* ModelNotDerivedError when raise_on_failure is true, and returns None when it
\* is false.
C3_ExhaustedOutcome ==
    (pc = "done" /\ AllFailedExtraction) =>
        IF raise_on_failure
        THEN outcome.kind = "raise" /\ outcome.exc = "ModelNotDerivedError"
        ELSE outcome = Return(None)

\* an exhausted call of two or more attempts that returned None
C3_Witness ==
    /\ pc = "done"
    /\ AllFailedExtraction
    /\ Len(attempts) = max_retries
    /\ max_retries >= 2
    /\ ~raise_on_failure
    /\ outcome = Return(None)

\* C4 as stated: the payload of ModelNotDerivedError is the prompt passed to
\* send on the final attempt.
C4_PayloadIsLastSent ==
    (pc = "done" /\ outcome.exc = "ModelNotDerivedError") =>
        outcome.payload = sent[Len(sent)]

\* C4 as amended: the payload of ModelNotDerivedError is the prompt passed to
\* send on the final attempt, followed by the feedback block for the failure of
\* that attempt when it failed with PatternNotFound or CombinedException.
C4_PayloadIsLastSentPlusFeedback ==
    (pc = "done" /\ outcome.exc = "ModelNotDerivedError") =>
        LET last == attempts[Len(attempts)]
        IN  outcome.payload =
                IF FailedExtraction(last)
                THEN Append(sent[Len(sent)], FeedbackBlock(last.raised))
                ELSE sent[Len(sent)]

\* a call that raised ModelNotDerivedError after a final attempt that ended with
\* CombinedException, and that sent a prompt with feedback in it
C4_Witness ==
    /\ pc = "done"
    /\ outcome.exc = "ModelNotDerivedError"
    /\ Len(sent) >= 2
    /\ attempts[Len(attempts)].raised.type = "CombinedException"
    /\ Len(outcome.payload) = Len(sent[Len(sent)]) + 1

\* C5: the first attempt whose response holds a candidate that validates ends
\* the call: the call returns the value of the first such candidate and send
\* was called once per attempt up to that one.
C5_FirstSuccessEndsCall ==
    \A i \in 1..Len(attempts) :
        (max_retries >= 1 /\ ValidCandidates(attempts[i]) # {}) =>
            /\ i = Len(attempts)
            /\ Len(sent) = i
            /\ pc = "done"
            /\ outcome = Return(CandidateValue(attempts[i],
                                               Min(ValidCandidates(attempts[i]))))

\* C6: the first prompt sent is the rendered prompt, and each later prompt is
\* the one before it with one feedback block, for the failure of the attempt
\* before, appended.
C6_FeedbackAccumulates ==
    /\ Len(sent) >= 1 =>
           sent[1] = render(p_prompt, NoCache,
                            generate_kwargs(user_input,
                                            response_model.pydantic_model,
                                            prompt_values)).rendered.text
    /\ \A k \in 2..Len(sent) :
           max_retries >= 1 =>
               sent[k] = Append(sent[k - 1], FeedbackBlock(attempts[k - 1].raised))

\* C7: when some candidate validates, _process_response returns the value of
\* the first candidate that does, having validated the candidates up to that
\* one, in order, and none after it.
C7_FirstValidCandidateWins ==
    \A i \in 1..Len(attempts) :
        LET a == attempts[i]
        IN  (max_retries >= 1 /\ ValidCandidates(a) # {}) =>
                LET k == Min(ValidCandidates(a))
                IN  /\ a.raised = NoException
                    /\ a.model = CandidateValue(a, k)
                    /\ a.validated = SubSeq(a.json_strings, 1, k)

\* C8: when find_patterns finds no candidate in a response, _process_response
\* raises PatternNotFound, which is no CombinedException, and validates nothing.
C8_PatternNotFoundFirst ==
    \A i \in 1..Len(attempts) :
        LET a == attempts[i]
        IN  (a.raised.type # "TransportError" /\ a.json_strings = <<>>) =>
                /\ a.raised = PatternNotFound
                /\ a.raised.type # "CombinedException"
                /\ a.validated = <<>>

\* an attempt whose response held no candidate
C8_Witness ==
    \E i \in 1..Len(attempts) :
        /\ attempts[i].raised = PatternNotFound
        /\ attempts[i].json_strings = <<>>
        /\ attempts[i].validated = <<>>

\* C9: when candidates are found and none validates, _process_response raises
\* one CombinedException holding the ValidationError of every candidate, in
\* candidate order.
C9_AllFailuresCarried ==
    \A i \in 1..Len(attempts) :
        LET a == attempts[i]
        IN  (a.json_strings # <<>> /\ ValidCandidates(a) = {}) =>
                /\ a.raised.type = "CombinedException"
                /\ a.raised.exceptions =
                       [k \in 1..Len(a.json_strings) |->
                           ValidationError(response_model.pydantic_model,
                                           a.json_strings[k])]

\* an attempt in which three candidates were found and all three failed
C9_Witness ==
    \E i \in 1..Len(attempts) :
        /\ Len(attempts[i].json_strings) = 3
        /\ ValidCandidates(attempts[i]) = {}
        /\ attempts[i].raised.type = "CombinedException"
        /\ Len(attempts[i].raised.exceptions) = 3

\* the attempts tenacity makes: stop_after_attempt(N) stops after the first
\* attempt when N is below one
AttemptsAllowed == Max({1, max_retries})

\* the call made every attempt it is allowed and every one of them raised
Exhausted ==
    /\ Len(attempts) = AttemptsAllowed
    /\ \A i \in 1..Len(attempts) : attempts[i].raised # NoException

\* the last attempt validated a candidate and the call returned its value
ReturnedValidated ==
    /\ Len(attempts) >= 1
    /\ LET a == attempts[Len(attempts)]
       IN  /\ a.raised = NoException
           /\ ValidCandidates(a) # {}
           /\ outcome = Return(CandidateValue(a, Min(ValidCandidates(a))))

\* C15 as stated: None is returned only when raise_on_failure is false and
\* all max_retries attempts failed.
C15_NoneOnlyAfterFailure ==
    (pc = "done" /\ max_retries >= 1 /\ outcome = Return(None)) =>
        ~raise_on_failure /\ Exhausted

\* the names the call gives to render: user_input, response_model, the schema
\* made from it, and the names of prompt_values
CallNames == {"user_input", "response_model", "response_model_json"} \cup prompt_values

\* the text the call gives to jinja2 (prompt.py:103-116): the Forge's template,
\* with the schema section appended unless the template prints
\* response_model_json, and the user input appended between newlines unless
\* the template prints user_input
TemplateTextOfCall ==
    build_prompt_to_render(
        p_prompt, p_cache,
        process_kwargs(generate_kwargs(user_input, response_model.pydantic_model,
                                       prompt_values))).prompt_to_render

\* the call prints a variable that it does not supply, which StrictUndefined
\* turns into UndefinedError
RenderFails ==
    \E i \in 1..Len(TemplateTextOfCall) :
        /\ TemplateTextOfCall[i].kind = "var"
        /\ TemplateTextOfCall[i].text \notin CallNames

\* C15 as stated, its first sentence: every call that has ended returned a
\* validated value, returned None, or raised ModelNotDerivedError.
C15_EveryCallOneOfThree ==
    pc = "done" =>
        \/ ReturnedValidated
        \/ outcome = Return(None)
        \/ outcome.exc = "ModelNotDerivedError"

\* C15, amended: a call whose prompt failed to render has ended with the
\* exception render raised, having made no attempt and no send; a call whose
\* prompt rendered and that has ended returned the value of a candidate that
\* validated on its last attempt (a value that may itself be None), or
\* returned None with raise_on_failure false after all its attempts failed, or
\* raised ModelNotDerivedError with raise_on_failure true after all its
\* attempts failed; a call that has not ended has no outcome.
C15_OutcomesOfACall ==
    IF pc # "done"
    THEN outcome = NoOutcome
    ELSE IF RenderFails
         THEN /\ outcome = Raise("UndefinedError", <<>>)
              /\ sent = <<>>
              /\ attempts = <<>>
         ELSE \/ ReturnedValidated
              \/ /\ outcome = Return(None)
                 /\ ~raise_on_failure
                 /\ Exhausted
              \/ /\ outcome = Raise("ModelNotDerivedError", prepared_prompt)
                 /\ raise_on_failure
                 /\ Exhausted

\* a call with raise_on_failure true that returned None: the value null
\* validated on the second attempt
C15_Witness ==
    /\ pc = "done"
    /\ raise_on_failure
    /\ max_retries >= 2
    /\ Len(attempts) = 2
    /\ attempts[1].raised # NoException
    /\ ReturnedValidated
    /\ outcome = Return(None)

\* C16: with max_retries >= 1, PatternNotFound and CombinedException never
\* are the exception a call raises; an attempt that ends with one of them adds
\* its feedback to the prompt and is followed by another attempt unless it was
\* attempt number max_retries, after which the call raises
\* ModelNotDerivedError or returns None, as raise_on_failure says.
C16_ExtractionFailuresRecovered ==
    max_retries >= 1 =>
        /\ outcome.exc \notin ExtractionFailures
        /\ \A i \in 1..Len(attempts) :
               FailedExtraction(attempts[i]) =>
                   /\ i < max_retries =>
                          IF i < Len(attempts)
                          THEN attempts[i + 1].prompt =
                                   Append(attempts[i].prompt,
                                          FeedbackBlock(attempts[i].raised))
                          ELSE /\ pc \in {"send", "process"}
                               /\ attempt_number = i + 1
                               /\ prepared_prompt =
                                      Append(attempts[i].prompt,
                                             FeedbackBlock(attempts[i].raised))
                   /\ (i = max_retries /\ pc = "done") =>
                          outcome = IF raise_on_failure
                                    THEN Raise("ModelNotDerivedError", prepared_prompt)
                                    ELSE Return(None)

\* a call that raised ModelNotDerivedError after an attempt that ended with
\* PatternNotFound and a last one that ended with CombinedException
C16_Witness ==
    /\ pc = "done"
    /\ max_retries = 2
    /\ Len(attempts) = 2
    /\ attempts[1].raised.type = "PatternNotFound"
    /\ attempts[2].raised.type = "CombinedException"
    /\ outcome.exc = "ModelNotDerivedError"

\* no piece of the prompt is feedback
NoFeedback(prompt) == \A k \in 1..Len(prompt) : prompt[k].kind # "feedback"

\* C17: no step of generate changes the template text, the target type and
\* schema of the descriptor and the kind it reports, the match patterns,
\* max_retries or raise_on_failure; and the first prompt a call sends is the
\* rendering of the template with that call's user_input and the schema, as a
\* Forge just constructed gives it, with no feedback in it.
C17_ConfigurationUnchanged ==
    /\ [][/\ p_prompt' = p_prompt
          /\ response_model'.model = response_model.model
          /\ response_model'.pydantic_model = response_model.pydantic_model
          /\ read_original_type(response_model)' = read_original_type(response_model)
          /\ match_patterns' = match_patterns
          /\ max_retries' = max_retries
          /\ raise_on_failure' = raise_on_failure]_vars
    /\ [](Len(sent) >= 1 =>
             /\ sent[1] = render(init_prompt(<<>>), NoCache,
                                 generate_kwargs(user_input,
                                                 response_model.pydantic_model,
                                                 prompt_values)
                                ).rendered.text
             /\ NoFeedback(sent[1]))

\* a second call, made after a call that validated a candidate, whose first
\* attempt ended with PatternNotFound and whose second prompt was sent
C17_Witness ==
    /\ calls = 2
    /\ Len(sent) = 2
    /\ attempts[1].raised.type = "PatternNotFound"
    /\ response_model.original_type # "unset"
    /\ NoFeedback(sent[1])
    /\ ~NoFeedback(sent[2])

\* C22: each prompt sent after the first is the one sent before it, with the
\* feedback for the attempt before appended when that attempt ended with
\* PatternNotFound or CombinedException, and unchanged when it ended with any
\* other failure.
C22_FeedbackOnlyAfterExtractionFailure ==
    \A k \in 2..Len(sent) :
        sent[k] = IF FailedExtraction(attempts[k - 1])
                  THEN Append(sent[k - 1], FeedbackBlock(attempts[k - 1].raised))
                  ELSE sent[k - 1]

\* an attempt in which send raised was followed by an attempt that sent the
\* same prompt, and an attempt that ended with PatternNotFound by one that
\* sent that prompt with feedback
C22_Witness ==
    /\ Len(sent) = 3
    /\ attempts[1].raised = TransportError
    /\ sent[2] = sent[1]
    /\ attempts[2].raised = PatternNotFound
    /\ sent[3] # sent[2]

\* every attempt made so far raised
AllFailed ==
    /\ Len(attempts) >= 1
    /\ \A i \in 1..Len(attempts) : attempts[i].raised # NoException

\* C23 as stated: for every max_retries, also zero and below, every call sends
\* at least once before it ends, and a call whose attempts all fail has sent
\* max(1, max_retries) times when it ends and never more.
C23_AtLeastOneSend ==
    /\ pc \in {"retry_error", "done"} => Len(sent) >= 1
    /\ AllFailed =>
           /\ Len(sent) <= Max({1, max_retries})
           /\ pc \in {"retry_error", "done"} => Len(sent) = Max({1, max_retries})
    /\ pc = "done" /\ AllFailed => outcome = retry_error_outcome(raise_on_failure, prepared_prompt, None)

\* C23, amended: for every max_retries, also zero and below, a call whose
\* prompt rendered sends at least once before it ends, and a call whose prompt
\* failed to render ends without a send; a call whose attempts all fail has
\* sent max(1, max_retries) times when it ends and never more, and ends as
\* exhausted.
C23_AtLeastOneSendOnceRendered ==
    /\ pc \in {"retry_error", "done"} =>
           IF RenderFails THEN Len(sent) = 0 ELSE Len(sent) >= 1
    /\ AllFailed =>
           /\ Len(sent) <= Max({1, max_retries})
           /\ pc \in {"retry_error", "done"} => Len(sent) = Max({1, max_retries})
    /\ pc = "done" /\ AllFailed => outcome = retry_error_outcome(raise_on_failure, prepared_prompt, None)

\* a Forge with max_retries below one whose call ended as exhausted after one
\* send
C23_Witness ==
    /\ max_retries = -1
    /\ pc = "done"
    /\ Len(sent) = 1
    /\ AllFailed
    /\ outcome.exc = "ModelNotDerivedError"

(***************************************************************************)
(* Properties of find_patterns, checked under SpecFind.                    *)
(***************************************************************************)
\* the patterns of the call as a list
C10_Patterns == IF fp_patterns.isstr THEN <<fp_patterns.value>> ELSE fp_patterns.value

\* the matches of the first n patterns, each pattern's matches after those of
\* the patterns before it
RECURSIVE C10_Concatenation(_)
C10_Concatenation(n) ==
    IF n = 0 THEN <<>>
    ELSE C10_Concatenation(n - 1) \o StripAll(findall(C10_Patterns[n], fp_text))

\* the string neither starts nor ends with whitespace
NoOuterWhitespace(e) ==
    e = <<>> \/ (e[1] \notin Whitespace /\ e[Len(e)] \notin Whitespace)

\* C10: find_patterns returns each pattern's matches in their order in the
\* text, the matches of a pattern after those of every pattern before it in the
\* list, none with leading or trailing whitespace; a single string pattern
\* gives what the list of that one pattern gives.
C10_PatternOrder ==
    fp_pc = "done" =>
        /\ fp_result = C10_Concatenation(Len(C10_Patterns))
        /\ \A k \in 1..Len(fp_result) : NoOuterWhitespace(fp_result[k])
        /\ fp_patterns.isstr =>
               fp_result = find_patterns(fp_text, ListArg(<<fp_patterns.value>>))

\* two patterns, the match of the second lying before the match of the first
\* in the text, and a match that had whitespace to remove
C10_Witness ==
    /\ fp_pc = "done"
    /\ fp_text = <<"{", "}", "<", " ", ">">>
    /\ fp_patterns = ListArg(<<AnglePattern, BracePattern>>)
    /\ findall(AnglePattern, fp_text) = <<(<<" ">>)>>
    /\ fp_result = <<(<<>>), (<<"{", "}">>)>>

(***************************************************************************)
(* Properties of Prompt, checked under SpecPrompt.                         *)
(***************************************************************************)
\* the render calls made so far
Renders == {i \in 1..Len(p_calls) : p_calls[i].op = "render"}

\* prompt.py:107-111: the standard schema section as render appends it
SchemaSection == <<NL>> \o RESPONSE_MODEL_TEXT \o <<NL>>

\* prompt.py:115-116: the user-input line as render appends it
UserInputLine(input) == <<NL>> \o input \o <<NL>>

\* a schema-description value is supplied: response_model_json itself, or a
\* response_model to derive it from
SchemaSupplied(kwargs) == kwargs.has_json \/ kwargs.has_response_model

\* the template references the variable
References(prompt, name) == name \in find_undeclared_variables(prompt)

AppendsSchema(prompt, kwargs) ==
    SchemaSupplied(kwargs) /\ ~References(prompt, "response_model_json")

AppendsUserInput(prompt, kwargs) ==
    kwargs.has_user_input /\ ~References(prompt, "user_input")

\* C11: the text render builds is the template, then the schema section
\* exactly when a schema description is supplied and the template does not
\* reference response_model_json, then the user-input line exactly when
\* user_input is supplied and the template does not reference user_input.
C11_AppendedSections ==
    \A i \in Renders :
        LET e == p_calls[i]
        IN  e.prompt_to_render =
                p_prompt
                \o (IF AppendsSchema(p_prompt, e.kwargs) THEN SchemaSection ELSE <<>>)
                \o (IF AppendsUserInput(p_prompt, e.kwargs)
                    THEN UserInputLine(e.kwargs.user_input)
                    ELSE <<>>)

\* renders of one Prompt: one that appended both sections, one that appended
\* only one of them
C11_Witness ==
    /\ Len(p_calls) = 2
    /\ Renders = {1, 2}
    /\ AppendsSchema(p_prompt, p_calls[1].kwargs)
    /\ AppendsUserInput(p_prompt, p_calls[1].kwargs)
    /\ p_calls[1].rendered.ok
    /\ AppendsSchema(p_prompt, p_calls[2].kwargs)
           # AppendsUserInput(p_prompt, p_calls[2].kwargs)

\* C12: render never changes the stored template text, and every render call
\* gives what the same call gives on a Prompt just constructed from that text.
C12_RenderRepeatable ==
    /\ [](\A i \in Renders :
             LET e == p_calls[i]
                 first == render(p_prompt, NoCache, e.kwargs)
             IN  /\ e.prompt_to_render = first.prompt_to_render
                 /\ e.rendered = first.rendered)
    /\ [][p_prompt' = p_prompt]_vars

\* the same render made twice on one Prompt, with both sections appended
C12_Witness ==
    /\ Len(p_calls) = 2
    /\ Renders = {1, 2}
    /\ p_calls[1].kwargs = p_calls[2].kwargs
    /\ AppendsSchema(p_prompt, p_calls[1].kwargs)
    /\ AppendsUserInput(p_prompt, p_calls[1].kwargs)
    /\ p_calls[1].rendered.ok
    /\ p_calls[1].rendered = p_calls[2].rendered
    /\ p_calls[2].cache_before # NoCache

\* C13: the template text is parsed for its variables at most once in the
\* lifetime of the Prompt, and the set of variables read is always the set of
\* the template text as constructed.
C13_ParsedAtMostOnce ==
    /\ p_parses <= 1
    /\ \A i \in 1..Len(p_calls) :
           p_calls[i].op = "prompt_variables" =>
               p_calls[i].names = find_undeclared_variables(p_prompt)

\* the variables the template itself prints are all given
TemplateVariablesGiven(prompt, kwargs) ==
    jinja_render(prompt, process_kwargs(kwargs)).ok

\* C18: when user_input is supplied, the template does not reference it and
\* the variables the template itself prints are given, the render succeeds and
\* the rendered prompt ends with a line that is the user-input text exactly as
\* supplied.
C18_RawUserInputLast ==
    \A i \in Renders :
        LET e == p_calls[i]
            n == Len(e.rendered.text)
            m == Len(e.kwargs.user_input)
        IN  (/\ AppendsUserInput(p_prompt, e.kwargs)
             /\ TemplateVariablesGiven(p_prompt, e.kwargs)) =>
                /\ e.rendered.ok
                /\ n >= m + 1
                /\ SubSeq(e.rendered.text, n - m + 1, n) = e.kwargs.user_input
                /\ e.rendered.text[n - m] = NL

(***************************************************************************)
(* Properties of ResponseModel, checked under SpecAdapter.                 *)
(***************************************************************************)
\* the target type is a class, not a generic alias, that subclasses BaseModel
StructuredTarget(t) == t.is_type /\ t.basemodel /\ ~t.generic_alias

\* the last _process_response call validated a candidate
Validated == calls >= 1 /\ ValidCandidates(attempts[1]) # {}

\* C14: the kind of a ResponseModel is PYDANTIC exactly when the target type
\* is a class that subclasses BaseModel and is not a generic alias; then the
\* schema validated against is the target type itself and a validated
\* response gives the validated instance.  For every other target type the
\* kind is PYTHON, the schema is a model with the one field value of that
\* type, and a validated response gives the content of that field, never the
\* wrapper instance.
C14_Classification ==
    LET t == response_model.model
        pm == response_model.pydantic_model
    IN  IF StructuredTarget(t)
        THEN /\ read_original_type(response_model) = "pydantic"
             /\ ~pm.wrapper /\ pm.name = t.name
             /\ (Validated /\ outcome.kind = "return") =>
                    /\ outcome.value.kind = "instance"
                    /\ outcome.value.cls = t.name
        ELSE /\ read_original_type(response_model) = "python"
             /\ pm.wrapper /\ pm.value_type = t.name
             /\ (Validated /\ outcome.kind = "return") =>
                    /\ outcome.value.kind # "instance"
                    /\ outcome.value =
                           ValueField(model_validate_json(
                               pm, attempts[1].json_strings[
                                       Min(ValidCandidates(attempts[1]))]).instance)

\* list[str], seen as a class by isinstance, gave the list inside the wrapper
C14_Witness ==
    /\ response_model.model.name = "list[str]"
    /\ response_model.model.is_type
    /\ response = TextList
    /\ outcome = Return(PlainValue("['a']"))

\* the kind that goes with the validatable schema chosen at construction
KindOfSchema(rm) ==
    IF ~rm.pydantic_model.wrapper /\ rm.pydantic_model.name = rm.model.name
    THEN "pydantic"
    ELSE "python"

\* C20: in every state a read of original_type gives PYDANTIC exactly when
\* pydantic_model is the supplied target type and PYTHON exactly when it is
\* the one-field wrapper, also before the first read; the value kept after the
\* first read is that value; and no step changes what a read gives, the value
\* kept once there is one, the target type or the schema.
C20_KindFixed ==
    /\ [](/\ read_original_type(response_model) = KindOfSchema(response_model)
          /\ original_type(response_model.model) = KindOfSchema(response_model)
          /\ (read_original_type(response_model) = "python")
                 = response_model.pydantic_model.wrapper)
    /\ [][/\ read_original_type(response_model)' = read_original_type(response_model)
          /\ response_model.original_type # "unset" =>
                 response_model'.original_type = response_model.original_type
          /\ response_model'.model = response_model.model
          /\ response_model'.pydantic_model = response_model.pydantic_model]_vars

\* two _process_response calls made with the descriptor of a pydantic class,
\* the second one returning an instance, the kind being kept
C20_Witness ==
    /\ calls = 2
    /\ response_model.model = CityType
    /\ response_model.original_type = "pydantic"
    /\ outcome.kind = "return"
    /\ outcome.value.kind = "instance"

\* C21: whenever a candidate of the response validates against the schema,
\* _process_response returns and does not raise CombinedException, whatever
\* the value of the candidate is and however many candidates before it failed.
C21_CombinedOnlyWhenNoneValid ==
    Validated => /\ outcome.kind = "return"
                 /\ attempts[1].raised = NoException

(***************************************************************************)
(* Properties of concurrent generate calls, checked under SpecConc.        *)
(***************************************************************************)
\* the call of thread t run alone on a Forge of the same configuration, given
\* what send gave the attempts of the thread that have ended
Alone(t) ==
    generate_alone(max_retries, raise_on_failure, match_patterns,
                   ResponseModel(response_model.model),
                   render(p_prompt, NoCache,
                          generate_kwargs(ThreadInput(t),
                                          ResponseModel(response_model.model).pydantic_model,
                                          {})
                         ).rendered.text,
                   1, threads[t].responses, <<>>)

\* C19: whatever the other thread does, a call has at every point sent the
\* prompts and holds the prompt that the same call run alone has sent and
\* holds after the same responses, and it ends with the same outcome.
C19_NoInterference ==
    \A t \in Threads :
        LET c == threads[t]
            alone == Alone(t)
        IN  c.pc # "idle" =>
                /\ c.prepared_prompt = alone.prepared_prompt
                /\ c.sent = IF c.pc = "process"
                            THEN Append(alone.sent, alone.prepared_prompt)
                            ELSE alone.sent
                /\ c.outcome = IF c.pc = "done" THEN alone.outcome ELSE NoOutcome
                /\ (c.pc \in {"retry_error", "done"}) = (alone.outcome # NoOutcome)

\* both calls are in their second attempt at the same time, one waiting to
\* send and one with a response to process, each holding its own prompt with
\* its own feedback
C19_Witness ==
    /\ threads[1].pc = "process"
    /\ threads[1].attempt_number = 2
    /\ threads[2].pc = "send"
    /\ threads[2].attempt_number = 2
    /\ threads[1].responses # threads[2].responses
    /\ threads[1].prepared_prompt # threads[2].prepared_prompt
    /\ ~NoFeedback(threads[1].prepared_prompt)
    /\ ~NoFeedback(threads[2].prepared_prompt)

(***************************************************************************)
(* Properties of concurrent first renders, checked under SpecRace.         *)
(***************************************************************************)
\* the cache after the two renders made one after the other
SequentialCache ==
    render(p_prompt, render(p_prompt, NoCache, threads[1].kwargs).cache,
           threads[2].kwargs).cache

\* C24: at every point of every interleaving the cache is empty or holds the
\* variable set of the template text; a render that has ended built the text
\* and gave the output that the same render gives on its own; and when both
\* have ended the cache holds what the two renders leave when run one after
\* the other.
C24_RaceIsBenign ==
    /\ p_cache \in {NoCache, Cached(find_undeclared_variables(p_prompt))}
    /\ \A t \in Threads :
           threads[t].pc = "done" =>
               LET alone == render(p_prompt, NoCache, threads[t].kwargs)
               IN  /\ threads[t].prompt_to_render = alone.prompt_to_render
                   /\ threads[t].rendered = alone.rendered
    /\ (\A t \in Threads : threads[t].pc = "done") => p_cache = SequentialCache

\* both renders ended after both had found the cache empty and parsed a
\* template that references a variable, one overwriting the other's set
C24_Witness ==
    /\ \A t \in Threads : threads[t].pc = "done" /\ threads[t].rendered.ok
    /\ find_undeclared_variables(p_prompt) # {}
    /\ p_parses = 2
    /\ threads[1].prompt_to_render # threads[2].prompt_to_render

====
